---- MODULE Spec2Model ----
(***************************************************************************)
(* State-machine model of the TeamSpeak auto-updater: the two version      *)
(* lookups, the update decision, download, extraction, materialization of  *)
(* the release tree and the swap of the active symbolic link.              *)
(***************************************************************************)
EXTENDS Integers, Sequences, FiniteSets, TLC

(***************************************************************************)
(* Bounds of the model.                                                    *)
(***************************************************************************)
MaxMajor == 1
MaxRuns == 2
MaxFaults == 1

(***************************************************************************)
(* semver::Version.  major.minor.patch with an optional pre-release        *)
(* identifier; pre = 0 stands for "no pre-release", pre > 0 for the        *)
(* numeric pre-release identifier "-<pre>".  The minor and patch fields    *)
(* are kept at 0 and the only pre-release identifier is "-1".              *)
(***************************************************************************)
Version == [major : 0..MaxMajor, minor : {0}, patch : {0}, pre : {0, 1}]

MkVersion(ma, mi, pa, pr) == [major |-> ma, minor |-> mi, patch |-> pa, pre |-> pr]

\* Ord for semver::Version: major, minor, patch, then pre-release precedence
\* (a pre-release is lower than the release with the same triple).
VersionLt(a, b) ==
    \/ a.major < b.major
    \/ a.major = b.major /\ a.minor < b.minor
    \/ a.major = b.major /\ a.minor = b.minor /\ a.patch < b.patch
    \/ /\ a.major = b.major /\ a.minor = b.minor /\ a.patch = b.patch
       /\ a.pre # 0
       /\ (b.pre = 0 \/ a.pre < b.pre)

(***************************************************************************)
(* Text.  A string is a sequence of integer tokens: a token >= 0 is a      *)
(* decimal number, Dash is the "-" that starts a pre-release, and the      *)
(* remaining negative tokens are words that are no numbers.  The dots      *)
(* between the numeric fields are implicit.                                *)
(***************************************************************************)
Dash == -1
WordCurrent == -2
NotUtf8 == -3

\* Display for semver::Version (Version::to_string)
VersionToString(v) ==
    IF v.pre = 0 THEN <<v.major, v.minor, v.patch>>
    ELSE <<v.major, v.minor, v.patch, Dash, v.pre>>

\* Version::parse succeeds on the text
VersionParses(s) ==
    \/ Len(s) = 3 /\ \A i \in 1..3 : s[i] >= 0
    \/ Len(s) = 5 /\ (\A i \in 1..3 : s[i] >= 0) /\ s[4] = Dash /\ s[5] > 0

\* Version::parse, where it succeeds
VersionParse(s) ==
    MkVersion(s[1], s[2], s[3], IF Len(s) = 5 THEN s[5] ELSE 0)

\* Directory names and listing tokens that are no versions
JunkNames == { <<WordCurrent>>, <<1, 0>>, <<NotUtf8>> }

VersionNames == { VersionToString(v) : v \in Version }

Names == VersionNames \cup JunkNames

(***************************************************************************)
(* Directory trees.  An extracted archive is a listing: a sequence of      *)
(* entries in the order read_dir returns them, a directory entry carrying  *)
(* the listing of its children.  A release tree under releases-root is a   *)
(* function from relative paths to "dir", "file" (a complete copy) or      *)
(* "partial" (a copy abandoned before its end).                            *)
(***************************************************************************)
Dir(name, children) == [name |-> name, kind |-> "dir", children |-> children]
File(name) == [name |-> name, kind |-> "file", children |-> <<>>]

\* the packaging of the mirror: one wrapper folder around the payload, in
\* which a file name occurs in two directories
WrapperLayout ==
    << Dir("teamspeak3-server",
           << Dir("doc", << File("LICENSE") >>), File("LICENSE") >>) >>
\* an archive with nothing in it
EmptyLayout == << >>
\* an archive with two top-level entries, a folder and a file, in the two
\* orders a listing can have
TwoTopLayoutAB == << Dir("A", << File("a.txt") >>), File("B") >>
TwoTopLayoutBA == << File("B"), Dir("A", << File("a.txt") >>) >>

Layouts == { WrapperLayout, EmptyLayout, TwoTopLayoutAB, TwoTopLayoutBA }

EmptyTree == << >>
\* what the installation that exists before the first run holds
InstalledTree == (<<"ts3server">> :> "file")

NoDir == [root |-> << >>, src |-> << >>, rest |-> << >>, open |-> FALSE]
OpenDir(root, src, listing) == [root |-> root, src |-> src, rest |-> listing, open |-> TRUE]

\* PathBuf without its last component
Parent(path) == SubSeq(path, 1, Len(path) - 1)

(***************************************************************************)
(* The state.                                                              *)
(***************************************************************************)
VARIABLES
    pc,            \* position of the run in main
    runs,          \* number of runs started
    now,           \* the last SystemTime::now() read, in seconds
    faults,        \* number of I/O failures the environment has produced
    symlink,       \* the entry at symlink_path
    backups,       \* the entries <symlink-filename>.<timestamp> next to it
    releases,      \* releases_path: directory name -> release tree
    tempdir,       \* the scratch directory of extract_archive
    server_archive,\* the downloaded archive
    installed,     \* result of installed_version
    published,     \* result of latest_version
    listing,       \* anchor texts of the fetched listing
    read_queue,    \* move_extracted_files: directories still to read
    cur,           \* move_extracted_files: the directory being read
    append_dirs,   \* move_extracted_files: directories found in cur
    file_paths,    \* move_extracted_files: files recorded for copying
    file_copying,  \* move_extracted_files: copies not finished
    backup_ts,     \* swap_link: the timestamp of new_path
    stages,        \* history: the stages this run has started
    start,         \* history: symlink, backups and releases when the run began
    failed_stage,  \* history: the stage whose error ended the run
    swallowed,     \* history: a listing error was ignored in this materialization
    extracted,     \* history: the listing move_extracted_files was given in this run
    hist,          \* history: facts about earlier materializations
    exit_code,     \* the exit status of the process, -1 while it runs
    activated,     \* history: the directory names symlink_path has targeted
    response,      \* latest_version: the answer of the mirror to GET mirror_url
    target_arg,    \* the text given for --target-tuple
    target_tuple,  \* Config.target_tuple: the result of Tuple::from_str
    file_name,     \* the result of Tuple::archive_filename
    algorithm,     \* the function extractor::extract dispatches to
    mirror_url,    \* Config.mirror_url: the path of the mirror's URL
    archive_url    \* the result of remote_archive_path

vars == << pc, runs, now, faults, symlink, backups, releases, tempdir, server_archive,
           installed, published, listing, read_queue, cur, append_dirs, file_paths,
           file_copying, backup_ts, stages, start, failed_stage, exit_code, swallowed, extracted,
           hist, activated, response, target_arg, target_tuple, file_name, algorithm,
           mirror_url, archive_url >>

fsVars == << symlink, backups, releases >>
walkVars == << read_queue, cur, append_dirs, file_paths, file_copying >>
lookupVars == << installed, published, listing >>
unitVars == << response, target_arg, target_tuple, file_name, algorithm,
               mirror_url, archive_url >>

Absent == [kind |-> "absent", loc |-> "none", name |-> << >>]
LinkTo(name) == [kind |-> "link", loc |-> "releases", name |-> name]
LinkToFile == [kind |-> "link", loc |-> "file", name |-> << >>]
LinkDangling == [kind |-> "link", loc |-> "missing", name |-> << >>]

NoVersion == [major |-> 0, minor |-> 0, patch |-> 0, pre |-> 0]
Pending == [st |-> "pending", why |-> "", v |-> NoVersion]
Failure(why) == [st |-> "err", why |-> why, v |-> NoVersion]
Success(v) == [st |-> "ok", why |-> "", v |-> v]

\* fs::canonicalize(path) succeeds: the entry exists and its target exists
Resolves(entry) ==
    /\ entry.kind = "link"
    /\ \/ entry.loc = "file"
       \/ entry.loc = "releases" /\ entry.name \in DOMAIN releases

\* real_path.is_dir()
ResolvesToDir(entry) ==
    /\ entry.kind = "link"
    /\ entry.loc = "releases"
    /\ entry.name \in DOMAIN releases

\* the environment may produce one more I/O failure
MayFail == faults < MaxFaults

(***************************************************************************)
(* The version lookups.                                                    *)
(***************************************************************************)
\* an installed_version that reads a name of two numbers as major.minor.0
installed_version_lenient(entry) ==
    IF ~Resolves(entry) THEN Failure("canonicalize")
    ELSE IF ~ResolvesToDir(entry) THEN Failure("not_a_directory")
    ELSE IF \E i \in 1..Len(entry.name) : entry.name[i] = NotUtf8 THEN Failure("not_utf8")
    ELSE IF Len(entry.name) = 2 /\ entry.name[1] >= 0 /\ entry.name[2] >= 0
         THEN Success(MkVersion(entry.name[1], entry.name[2], 0, 0))
    ELSE IF ~VersionParses(entry.name) THEN Failure("parse")
    ELSE Success(VersionParse(entry.name))

\* local.rs installed_version: the version named by the directory the
\* symlink resolves to
installed_version(entry) ==
    IF ~Resolves(entry) THEN Failure("canonicalize")
    ELSE IF ~ResolvesToDir(entry) THEN Failure("not_a_directory")
    ELSE IF \E i \in 1..Len(entry.name) : entry.name[i] = NotUtf8 THEN Failure("not_utf8")
    ELSE IF ~VersionParses(entry.name) THEN Failure("parse")
    ELSE Success(VersionParse(entry.name))

\* a versions that stops at the first anchor text that does not parse
RECURSIVE versions_until_junk(_)
versions_until_junk(listing_body) ==
    IF listing_body = << >> THEN << >>
    ELSE IF VersionParses(Head(listing_body))
         THEN << VersionParse(Head(listing_body)) >> \o versions_until_junk(Tail(listing_body))
         ELSE << >>

\* remote.rs versions: the anchor texts that parse, parsed, in listing order
RECURSIVE versions(_)
versions(listing_body) ==
    IF listing_body = << >> THEN << >>
    ELSE IF VersionParses(Head(listing_body))
         THEN << VersionParse(Head(listing_body)) >> \o versions(Tail(listing_body))
         ELSE versions(Tail(listing_body))

\* Iterator::max over a non-empty vector of versions
RECURSIVE MaxVersion(_)
MaxVersion(vs) ==
    IF Len(vs) = 1 THEN vs[1]
    ELSE LET m == MaxVersion(Tail(vs))
         IN IF VersionLt(m, vs[1]) THEN vs[1] ELSE m

\* a latest_version that falls back to 0.0.0 when nothing was collected
latest_version_default(listing_body) ==
    LET vs == versions(listing_body)
    IN IF vs = << >> THEN Success(NoVersion) ELSE Success(MaxVersion(vs))

\* remote.rs latest_version, once the listing body has been fetched
latest_version(listing_body) ==
    LET vs == versions(listing_body)
    IN IF vs = << >> THEN Failure("no_versions") ELSE Success(MaxVersion(vs))

\* the listings a mirror may serve
MaxListing == 3
Listings == UNION { [1..n -> Names] : n \in 0..MaxListing }

\* what latest_version returns on a listing: every result is that of a
\* listing of at most MaxAnchors anchor texts
MaxAnchors == 1
LookupResults ==
    { latest_version(body) : body \in UNION { [1..n -> Names] : n \in 0..MaxAnchors } }

\* what the mirror answers to GET mirror_url: the request fails to be sent,
\* the status is no success, the body cannot be read, or a listing arrives
NoResponse == [status |-> "none", body |-> << >>]
SendError == [status |-> "send_err", body |-> << >>]
StatusError == [status |-> "http_err", body |-> << >>]
BodyError == [status |-> "body_err", body |-> << >>]
Listing(body) == [status |-> "ok", body |-> body]
Responses == { SendError, StatusError, BodyError } \cup { Listing(body) : body \in Listings }

\* remote.rs latest_version, lines 33-45: send()?, error_for_status()?,
\* text()?, then the maximum of versions(body)
latest_version_response(resp) ==
    IF resp.status = "send_err" THEN Failure("transport")
    ELSE IF resp.status = "http_err" THEN Failure("status")
    ELSE IF resp.status = "body_err" THEN Failure("transport")
    ELSE latest_version(resp.body)

(***************************************************************************)
(* target.rs.  A text of the command line is its lower-case spelling and   *)
(* the set of positions written in upper case.                             *)
(***************************************************************************)
MaxCase == 1

Tuple == { "WindowsX86", "WindowsX8664", "LinuxX8664", "Mac", "FreeBSDX8664",
           "LinuxAlpine", "LinuxX86" }

ArchiveType == { "Bzip2Tarball", "Zip" }

\* ArchiveType::extension
extension(archive_type) == IF archive_type = "Zip" THEN "zip" ELSE "tar.bz2"

Text(lower, upper) == [lower |-> lower, upper |-> upper]
NoText == Text("", {})

\* str::to_lowercase
to_lowercase(s) == Text(s.lower, {})

NoTuple == [st |-> "pending", tuple |-> "none", arg |-> NoText]
Recognized(tuple) == [st |-> "ok", tuple |-> tuple, arg |-> NoText]
NotRecognized(s) == [st |-> "err", tuple |-> "none", arg |-> s]

\* a from_str that matches the text as it was written
from_str_exact(s) ==
    IF s.upper # {} THEN NotRecognized(s)
    ELSE CASE s.lower = "linux_amd64" -> Recognized("LinuxX8664")
           [] s.lower = "win64" -> Recognized("WindowsX8664")
           [] s.lower = "linux_alpine" -> Recognized("LinuxAlpine")
           [] s.lower = "freebsd_amd64" -> Recognized("FreeBSDX8664")
           [] s.lower = "mac" -> Recognized("Mac")
           [] s.lower = "win32" -> Recognized("WindowsX86")
           [] s.lower = "linux_x86" -> Recognized("LinuxX86")
           [] OTHER -> NotRecognized(s)

\* target.rs lines 43-54: Tuple::from_str
from_str(s) ==
    LET l == to_lowercase(s)
    IN CASE l = Text("linux_amd64", {}) -> Recognized("LinuxX8664")
         [] l = Text("win64", {}) -> Recognized("WindowsX8664")
         [] l = Text("linux_alpine", {}) -> Recognized("LinuxAlpine")
         [] l = Text("freebsd_amd64", {}) -> Recognized("FreeBSDX8664")
         [] l = Text("mac", {}) -> Recognized("Mac")
         [] l = Text("win32", {}) -> Recognized("WindowsX86")
         [] l = Text("linux_x86", {}) -> Recognized("LinuxX86")
         [] OTHER -> NotRecognized(s)

\* target.rs lines 58-68: Tuple::target_string
target_string(tuple) ==
    CASE tuple = "LinuxAlpine" -> "linux_alpine"
      [] tuple = "LinuxX86" -> "linux_x86"
      [] tuple = "FreeBSDX8664" -> "freebsd_amd64"
      [] tuple = "LinuxX8664" -> "linux_amd64"
      [] tuple = "Mac" -> "mac"
      [] tuple = "WindowsX86" -> "win32"
      [] tuple = "WindowsX8664" -> "win64"

\* an archive_type that knows the zip archives of Windows only
archive_type_windows(tuple) ==
    IF tuple \in { "WindowsX86", "WindowsX8664" } THEN "Zip" ELSE "Bzip2Tarball"

\* target.rs lines 79-84: Tuple::archive_type
archive_type(tuple) ==
    IF tuple \in { "Mac", "WindowsX86", "WindowsX8664" } THEN "Zip" ELSE "Bzip2Tarball"

\* target.rs lines 70-77: Tuple::archive_filename, the pieces of
\* format!("teamspeak3-server_{}-{}.{}", ..) in their order
archive_filename(tuple, version) ==
    << "teamspeak3-server_", target_string(tuple), "-", VersionToString(version), ".",
       extension(archive_type(tuple)) >>
NoFileName == << >>

\* extractor.rs lines 13-16: the function extract dispatches to
extract_dispatch(archive_type_) ==
    IF archive_type_ = "Zip" THEN "extract_zip" ELSE "extract_tarball"

\* the texts a command line may hold for --target-tuple
TargetTexts ==
    { target_string(t) : t \in Tuple } \cup { "", "not supported", "linux", "win64 " }
TargetArgs == { Text(l, u) : l \in TargetTexts, u \in SUBSET (1..MaxCase) }

\* target.rs lines 86-108: Tuple::deduce on a Linux x86_64 build
tuple_str == Text("linux_amd64", {})
deduce == from_str(tuple_str)

(***************************************************************************)
(* URLs.  The path of a URL is the sequence of its segments; a path that   *)
(* ends with a slash has the empty segment last, and the path "/" is the   *)
(* empty segment alone.                                                    *)
(***************************************************************************)
Segment(text) == [text |-> text, version |-> << >>, file |-> << >>]
VersionSegment(v) == [text |-> "", version |-> VersionToString(v), file |-> << >>]
FileSegment(f) == [text |-> "", version |-> << >>, file |-> f]
Slash == Segment("")

NoUrl == << >>

\* the mirrors a command line may name: the default of Config, the same
\* without its last slash, and a host alone
DefaultMirror == << Segment("releases"), Segment("server"), Slash >>
MirrorUrls == { DefaultMirror, << Segment("releases"), Segment("server") >>, << Slash >> }

\* Url::join with a relative path as reference: the reference takes the
\* place of everything after the last slash of the base path
url_join(base, reference) == SubSeq(base, 1, Len(base) - 1) \o reference

\* remote.rs lines 75-91: remote_archive_path
remote_archive_path(mirror, tuple, target) ==
    LET version_url == url_join(mirror, << VersionSegment(target), Slash >>)
        file_name_ == archive_filename(tuple, target)
    IN url_join(version_url, << FileSegment(file_name_) >>)

NoTempDir == [exists |-> FALSE, listing |-> << >>]
TempDir(l) == [exists |-> TRUE, listing |-> l]
NoArchive == [state |-> "none", layout |-> << >>]
Archive(l) == [state |-> "ok", layout |-> l]
CorruptArchive == [state |-> "corrupt", layout |-> << >>]

NoStart == [symlink |-> Absent, backups |-> << >>, releases |-> << >>, faults |-> 0]
NoHist == << >>

Terminated == pc \in {"done", "uptodate", "failed", "crashed"}

\* the release tree that mirrors a listing under `prefix`
RECURSIVE TreeOf(_, _)
TreeOf(prefix, l) ==
    IF l = << >> THEN EmptyTree
    ELSE LET e == Head(l)
             p == Append(prefix, e.name)
         IN (p :> e.kind)
            @@ (IF e.kind = "dir" THEN TreeOf(p, e.children) ELSE EmptyTree)
            @@ TreeOf(prefix, Tail(l))

\* the tree of one complete materialization of a listing into a new
\* directory: the children of its first entry, if it has one
CompleteTree(l) == IF l = << >> THEN EmptyTree ELSE TreeOf(<< >>, Head(l).children)

(***************************************************************************)
(* Init: an installation made by hand.  The symlink targets a directory    *)
(* of releases_path (whatever its name), a regular file, or nothing.  Or   *)
(* an installation after a manual rollback: an earlier run has activated   *)
(* the newest release m and the administrator has pointed the symlink      *)
(* back to the release n installed before it, the pre-release of m; both   *)
(* directories exist.                                                      *)
(***************************************************************************)
Init ==
    /\ pc = "idle"
    /\ runs = 0
    /\ now = 0
    /\ faults = 0
    /\ \/ /\ \E n \in Names : symlink = LinkTo(n) /\ releases = (n :> InstalledTree)
          /\ hist = NoHist
          /\ activated = { symlink.name }
       \/ /\ symlink \in {LinkToFile, LinkDangling} /\ releases = << >>
          /\ hist = NoHist
          /\ activated = {}
       \/ \E n, m \in VersionNames :
            /\ m = VersionToString(MkVersion(MaxMajor, 0, 0, 0))
            /\ n = VersionToString(MkVersion(MaxMajor, 0, 0, 1))
            /\ symlink = LinkTo(n)
            /\ releases = (n :> InstalledTree) @@ (m :> CompleteTree(WrapperLayout))
            /\ hist = (m :> {WrapperLayout})
            /\ activated = {n, m}
    /\ backups = << >>
    /\ tempdir = NoTempDir
    /\ server_archive = NoArchive
    /\ installed = Pending
    /\ published = Pending
    /\ listing = << >>
    /\ read_queue = << >>
    /\ cur = NoDir
    /\ append_dirs = << >>
    /\ file_paths = << >>
    /\ file_copying = {}
    /\ backup_ts = 0
    /\ stages = << >>
    /\ start = NoStart
    /\ failed_stage = ""
    /\ swallowed = FALSE
    /\ extracted = << >>
    /\ exit_code = -1
    /\ response = NoResponse
    /\ target_arg = tuple_str
    /\ target_tuple = deduce
    /\ file_name = NoFileName
    /\ algorithm = "none"
    /\ mirror_url = DefaultMirror
    /\ archive_url = NoUrl

\* main, lines 529-534: a run of the program begins
main_start ==
    /\ pc = "idle" \/ Terminated
    /\ runs < MaxRuns
    /\ runs' = runs + 1
    /\ pc' = "checking"
    /\ installed' = Pending
    /\ published' = Pending
    /\ listing' = << >>
    /\ stages' = << >>
    /\ start' = [symlink |-> symlink, backups |-> backups, releases |-> releases,
                 faults |-> faults]
    /\ failed_stage' = ""
    /\ exit_code' = -1
    /\ swallowed' = FALSE
    /\ extracted' = << >>
    /\ tempdir' = NoTempDir
    /\ server_archive' = NoArchive
    /\ read_queue' = << >> /\ cur' = NoDir /\ append_dirs' = << >>
    /\ file_paths' = << >> /\ file_copying' = {}
    /\ UNCHANGED << now, faults, fsVars, backup_ts, hist, activated, unitVars >>

\* determine_teamspeak_versions: the installed_version branch of try_join!
local_lookup ==
    /\ pc = "checking"
    /\ installed.st = "pending"
    /\ installed' = installed_version(symlink)
    /\ UNCHANGED << unitVars, activated >>
    /\ UNCHANGED << pc, runs, now, faults, fsVars, tempdir, server_archive, published,
                    listing, walkVars, backup_ts, stages, start, failed_stage, exit_code,
                    swallowed, extracted, hist >>

\* determine_teamspeak_versions: the latest_version branch of try_join!;
\* the request fails or returns a listing
remote_lookup ==
    /\ pc = "checking"
    /\ published.st = "pending"
    /\ \/ /\ MayFail
          /\ faults' = faults + 1
          /\ published' = Failure("transport")
          /\ listing' = << >>
       \/ /\ published' \in LookupResults
          /\ listing' = << >>
          /\ faults' = faults
    /\ UNCHANGED << unitVars, activated >>
    /\ UNCHANGED << pc, runs, now, fsVars, tempdir, server_archive, installed,
                    walkVars, backup_ts, stages, start, failed_stage, exit_code, swallowed, extracted, hist >>

\* a race: the result of the branch that completes first
try_join_race(a, b) ==
    IF a.st = "ok" \/ b.st = "ok" THEN "ok"
    ELSE IF a.st = "err" \/ b.st = "err" THEN "err"
    ELSE "pending"

\* a join that looks at the error of its first branch only
try_join_first(a, b) ==
    IF a.st = "err" THEN "err"
    ELSE IF a.st = "ok" /\ b.st # "pending" THEN "ok"
    ELSE "pending"

\* tokio::try_join!: the first error of either branch, or both values once
\* both branches are done
try_join(a, b) ==
    IF a.st = "err" \/ b.st = "err" THEN "err"
    ELSE IF a.st = "ok" /\ b.st = "ok" THEN "ok"
    ELSE "pending"

\* determine_teamspeak_versions, lines 519-525
determine_teamspeak_versions ==
    /\ pc = "checking"
    /\ \/ /\ try_join(installed, published) = "err"
          /\ pc' = "failed"
          /\ failed_stage' = "CheckingVersions"
          /\ exit_code' = 1
       \/ /\ try_join(installed, published) = "ok"
          /\ pc' = "compare"
          /\ UNCHANGED << failed_stage, exit_code >>
    /\ listing' = << >>
    /\ UNCHANGED << unitVars, activated >>
    /\ UNCHANGED << runs, now, faults, fsVars, tempdir, server_archive, installed,
                    published, walkVars, backup_ts, stages, start, swallowed, extracted, hist >>

\* an update decision that also updates to an equal version
UpdateAvailableOrEqual(installed_v, published_v) == ~VersionLt(published_v, installed_v)

\* an update decision that updates to every version other than the
\* installed one
UpdateAvailableDiffers(installed_v, published_v) == installed_v # published_v

\* main, line 539: the update decision
UpdateAvailable(installed_v, published_v) == VersionLt(installed_v, published_v)

\* std::process::exit(code): the process ends with this status
exit(code) == code

\* main, lines 539-555
main_compare ==
    /\ pc = "compare"
    /\ IF UpdateAvailable(installed.v, published.v)
       THEN /\ pc' = "downloading"
            /\ stages' = Append(stages, "Downloading")
            /\ exit_code' = exit_code
       ELSE /\ pc' = "uptodate"
            /\ stages' = stages
            /\ exit_code' = exit(1)
    /\ UNCHANGED << unitVars, activated >>
    /\ UNCHANGED << runs, now, faults, fsVars, tempdir, server_archive, lookupVars,
                    walkVars, backup_ts, start, failed_stage, swallowed, extracted, hist >>

\* an error return that leaves the scratch directory where it is
FailKeepingTempDir(stage) ==
    /\ pc' = "failed"
    /\ failed_stage' = stage
    /\ exit_code' = 1
    /\ tempdir' = tempdir
    /\ server_archive' = NoArchive

\* the run ends with the error of `stage`; the scratch directory and the
\* downloaded archive are dropped with the frames that own them
Fail(stage) ==
    /\ pc' = "failed"
    /\ failed_stage' = stage
    /\ exit_code' = 1
    /\ tempdir' = NoTempDir
    /\ server_archive' = NoArchive

\* a download_release that asks again after a failed request
download_release_retry ==
    /\ pc = "downloading"
    /\ \/ /\ MayFail
          /\ faults' = faults + 1
          /\ stages' = Append(stages, "Downloading")
          /\ UNCHANGED << pc, server_archive, tempdir, failed_stage, exit_code >>
       \/ /\ server_archive' \in { Archive(l) : l \in Layouts } \cup { CorruptArchive }
          /\ pc' = "extracting"
          /\ stages' = Append(stages, "Extracting")
          /\ UNCHANGED << faults, tempdir, failed_stage, exit_code >>
    /\ UNCHANGED << unitVars, activated >>
    /\ UNCHANGED << runs, now, fsVars, lookupVars, walkVars, backup_ts, start,
                    swallowed, extracted, hist >>

\* remote.rs download_release: the archive of the published version is
\* streamed into a temporary file, or the request fails
download_release ==
    /\ pc = "downloading"
    /\ \/ /\ MayFail
          /\ faults' = faults + 1
          /\ Fail("Downloading")
          /\ stages' = stages
       \/ /\ server_archive' \in { Archive(l) : l \in Layouts } \cup { CorruptArchive }
          /\ pc' = "extracting"
          /\ stages' = Append(stages, "Extracting")
          /\ UNCHANGED << faults, tempdir, failed_stage, exit_code >>
    /\ UNCHANGED << unitVars, activated >>
    /\ UNCHANGED << runs, now, fsVars, lookupVars, walkVars, backup_ts, start,
                    swallowed, extracted, hist >>

\* extractor.rs extract: unpacking succeeds exactly on an intact archive
extract(archive) == archive.state = "ok"

\* an extract_archive that unpacks into the directory of the version under
\* releases_path instead of a scratch directory
extract_archive_into_release ==
    /\ pc = "extracting"
    /\ releases' = IF VersionToString(published.v) \in DOMAIN releases THEN releases
                   ELSE releases @@ (VersionToString(published.v) :> EmptyTree)
    /\ \/ /\ ~extract(server_archive)
          /\ Fail("Extracting")
          /\ UNCHANGED << faults, stages, extracted >>
       \/ /\ extract(server_archive)
          /\ tempdir' = TempDir(server_archive.layout)
          /\ extracted' = server_archive.layout
          /\ pc' = "moving"
          /\ stages' = Append(stages, "Materializing")
          /\ UNCHANGED << faults, server_archive, failed_stage, exit_code >>
    /\ UNCHANGED << unitVars, activated >>
    /\ UNCHANGED << runs, now, symlink, backups, lookupVars, walkVars, backup_ts, start,
                    swallowed, hist >>

\* local.rs extract_archive, lines 38-43: the scratch directory is made and
\* the archive unpacked into it
extract_archive ==
    /\ pc = "extracting"
    /\ \/ /\ MayFail
          /\ faults' = faults + 1
          /\ Fail("Extracting")
          /\ UNCHANGED << stages, extracted >>
       \/ /\ ~extract(server_archive)
          /\ Fail("Extracting")
          /\ UNCHANGED << faults, stages, extracted >>
       \/ /\ extract(server_archive)
          /\ tempdir' = TempDir(server_archive.layout)
          /\ extracted' = server_archive.layout
          /\ pc' = "moving"
          /\ stages' = Append(stages, "Materializing")
          /\ UNCHANGED << faults, server_archive, failed_stage, exit_code >>
    /\ UNCHANGED << unitVars, activated >>
    /\ UNCHANGED << runs, now, fsVars, lookupVars, walkVars, backup_ts, start,
                    swallowed, hist >>

(***************************************************************************)
(* move_extracted_files.                                                   *)
(***************************************************************************)
\* a version_path that names the directory by major.minor.patch alone
version_path_release(v) == VersionToString([v EXCEPT !.pre = 0])

\* local.rs lines 62-63 and 160-161: the directory of a version under
\* releases_path is named by the version's text
version_path(v) == VersionToString(v)

\* fs::create_dir on a path that exists or not
create_dir(exists) == IF exists THEN "AlreadyExists" ELSE "Ok"

\* an ignore_exists_error that lets no error pass
ignore_exists_error_none(e) == FALSE

\* local.rs lines 75-82: TRUE when the error is turned into Ok(())
ignore_exists_error(e) == e = "AlreadyExists"

\* fs::create_dir(..).await.or_else(ignore_exists_error) is Ok
create_dir_ok(exists) ==
    LET r == create_dir(exists) IN r = "Ok" \/ ignore_exists_error(r)

\* the release tree with a directory at path (an existing entry is kept)
WithDir(tree, path) == tree @@ (path :> "dir")
\* the release tree after fs::copy wrote all of a file to path
WithFile(tree, path) == (path :> "file") @@ tree
\* the release tree after fs::copy wrote a part of a file to path
WithPartial(tree, path) == (path :> "partial") @@ tree

\* local.rs lines 65-70 with every listing treated as having no wrapper
first_read_dir_flat(root) == OpenDir(<< >>, << >>, root)

\* local.rs lines 65-70: the directory whose entries are walked first.
\* The first entry of the scratch directory, if there is one, is entered.
first_read_dir(root) ==
    IF root = << >> THEN OpenDir(<< >>, << >>, << >>)
    ELSE OpenDir(<< >>, << Head(root).name >>, Head(root).children)

\* lines 62-88 fail: fs::read_dir on a first entry that is no directory
FirstEntryUnreadable(root) == root # << >> /\ Head(root).kind # "dir"

\* hist with one more layout materialized into the directory `name`
Recorded(name, layout) ==
    IF name \in DOMAIN hist
    THEN [hist EXCEPT ![name] = @ \cup {layout}]
    ELSE hist @@ (name :> {layout})

\* move_extracted_files, lines 60-88: the first directory is opened and
\* the directory of the version is created
move_begin ==
    /\ pc = "moving"
    /\ LET name == version_path(published.v)
           made == IF name \in DOMAIN releases THEN releases
                   ELSE releases @@ (name :> EmptyTree)
       IN
       \/ \* an error before create_dir: canonicalize, read_dir
          /\ \/ MayFail /\ faults' = faults + 1
             \/ FirstEntryUnreadable(tempdir.listing) /\ faults' = faults
          /\ Fail("Materializing")
          /\ UNCHANGED << releases, read_queue, swallowed, extracted, hist >>
       \/ \* create_dir fails
          /\ ~FirstEntryUnreadable(tempdir.listing)
          /\ \/ MayFail /\ faults' = faults + 1
             \/ ~create_dir_ok(name \in DOMAIN releases) /\ faults' = faults
          /\ Fail("Materializing")
          /\ UNCHANGED << releases, read_queue, swallowed, extracted, hist >>
       \/ \* canonicalize of the created directory fails, line 88
          /\ ~FirstEntryUnreadable(tempdir.listing)
          /\ create_dir_ok(name \in DOMAIN releases)
          /\ MayFail /\ faults' = faults + 1
          /\ releases' = made
          /\ hist' = Recorded(name, tempdir.listing)
          /\ Fail("Materializing")
          /\ UNCHANGED << read_queue, swallowed >>
       \/ \* next_entry fails at line 68: the error is dropped by `if let`,
          \* nothing is entered and the listing of the root is at its end
          /\ MayFail /\ faults' = faults + 1
          /\ create_dir_ok(name \in DOMAIN releases)
          /\ releases' = made
          /\ hist' = Recorded(name, tempdir.listing)
          /\ read_queue' = << OpenDir(<< >>, << >>, << >>) >>
          /\ swallowed' = TRUE
          /\ pc' = "walking"
          /\ UNCHANGED << tempdir, server_archive, failed_stage, exit_code >>
       \/ \* no error
          /\ ~FirstEntryUnreadable(tempdir.listing)
          /\ create_dir_ok(name \in DOMAIN releases)
          /\ releases' = made
          /\ hist' = Recorded(name, tempdir.listing)
          /\ read_queue' = << first_read_dir(tempdir.listing) >>
          /\ pc' = "walking"
          /\ UNCHANGED << faults, tempdir, server_archive, failed_stage, exit_code, swallowed >>
    /\ UNCHANGED << unitVars, activated >>
    /\ UNCHANGED << runs, now, symlink, backups, lookupVars, cur, append_dirs,
                    file_paths, file_copying, backup_ts, stages, start, extracted >>

\* local.rs lines 119-124: where the file at `path` of the scratch directory
\* is copied to, relative to the directory of the version
copy_target_keep(path) == path
\* a copy_target that keeps the file name alone
copy_target_name(path) == << path[Len(path)] >>
copy_target(path) == Tail(path)

\* move_extracted_files, line 90 and lines 115-130: the next directory is
\* popped from read_queue; when there is none the copies are started
move_pop ==
    /\ pc = "walking"
    /\ ~cur.open
    /\ IF read_queue # << >>
       THEN /\ cur' = read_queue[Len(read_queue)]
            /\ read_queue' = SubSeq(read_queue, 1, Len(read_queue) - 1)
            /\ append_dirs' = << >>
            /\ UNCHANGED << pc, file_copying, file_paths >>
       ELSE /\ file_copying' =
                 { [from |-> file_paths[i], to |-> copy_target(file_paths[i])] :
                       i \in 1..Len(file_paths) }
            /\ pc' = "copying"
            /\ UNCHANGED << cur, read_queue, append_dirs, file_paths >>
    /\ UNCHANGED << unitVars, activated >>
    /\ UNCHANGED << runs, now, faults, fsVars, tempdir, server_archive, lookupVars,
                    backup_ts, stages, start, failed_stage, exit_code, swallowed, extracted, hist >>

\* move_extracted_files, lines 92-112: one next_entry of the directory
\* being read
move_entry ==
    /\ pc = "walking"
    /\ cur.open
    /\ LET name == version_path(published.v)
           tree == releases[name]
       IN
       \/ \* Ok(None): the directory is at its end, line 112
          /\ cur.rest = << >>
          /\ read_queue' = read_queue \o append_dirs
          /\ cur' = NoDir
          /\ append_dirs' = << >>
          /\ UNCHANGED << pc, faults, releases, tempdir, server_archive, file_paths,
                          failed_stage, exit_code, swallowed >>
       \/ \* Err: `while let Ok(Some(..))` ends the loop as at the end of
          \* the directory, the entries not yet read are skipped
          /\ cur.rest # << >>
          /\ MayFail /\ faults' = faults + 1
          /\ read_queue' = read_queue \o append_dirs
          /\ cur' = NoDir
          /\ append_dirs' = << >>
          /\ swallowed' = TRUE
          /\ UNCHANGED << pc, releases, tempdir, server_archive, file_paths,
                          failed_stage, exit_code >>
       \/ \* metadata, canonicalize or create_dir fails with `?`
          /\ cur.rest # << >>
          /\ \/ MayFail /\ faults' = faults + 1
             \/ /\ Head(cur.rest).kind = "dir"
                /\ ~create_dir_ok(Append(cur.root, Head(cur.rest).name) \in DOMAIN tree)
                /\ faults' = faults
          /\ Fail("Materializing")
          /\ UNCHANGED << releases, read_queue, cur, append_dirs, file_paths, swallowed >>
       \/ \* fs::read_dir(entry.path()) fails with `?`, line 104, after the
          \* directory has been mirrored
          /\ cur.rest # << >>
          /\ Head(cur.rest).kind = "dir"
          /\ create_dir_ok(Append(cur.root, Head(cur.rest).name) \in DOMAIN tree)
          /\ MayFail /\ faults' = faults + 1
          /\ releases' = [releases EXCEPT
                             ![name] = WithDir(tree, Append(cur.root, Head(cur.rest).name))]
          /\ Fail("Materializing")
          /\ UNCHANGED << read_queue, cur, append_dirs, file_paths, swallowed >>
       \/ \* a directory: mirrored under the version, queued for reading
          /\ cur.rest # << >>
          /\ Head(cur.rest).kind = "dir"
          /\ LET e == Head(cur.rest)
                 dir_path == Append(cur.root, e.name)
             IN /\ create_dir_ok(dir_path \in DOMAIN tree)
                /\ releases' = [releases EXCEPT ![name] = WithDir(tree, dir_path)]
                /\ append_dirs' =
                     Append(append_dirs, OpenDir(dir_path, Append(cur.src, e.name), e.children))
          /\ cur' = [cur EXCEPT !.rest = Tail(@)]
          /\ UNCHANGED << pc, faults, tempdir, server_archive, read_queue, file_paths,
                          failed_stage, exit_code, swallowed >>
       \/ \* a file: recorded for copying
          /\ cur.rest # << >>
          /\ Head(cur.rest).kind = "file"
          /\ file_paths' = Append(file_paths, Append(cur.src, Head(cur.rest).name))
          /\ cur' = [cur EXCEPT !.rest = Tail(@)]
          /\ UNCHANGED << pc, faults, releases, tempdir, server_archive, read_queue,
                          append_dirs, failed_stage, exit_code, swallowed >>
    /\ UNCHANGED << unitVars, activated >>
    /\ UNCHANGED << runs, now, symlink, backups, lookupVars, file_copying, backup_ts,
                    stages, start, extracted, hist >>

\* fs::copy(from, to) can succeed: the parent of `to` is a directory of the
\* release tree and `to` itself is no directory
CanCopy(tree, to) ==
    /\ to # << >>
    /\ Parent(to) = << >> \/ (Parent(to) \in DOMAIN tree /\ tree[Parent(to)] = "dir")
    /\ ~(to \in DOMAIN tree /\ tree[to] = "dir")

\* what the copies in `cs` leave behind when each of them has written
\* nothing, a part of its file or all of it, as `out` says
RECURSIVE Leftover(_, _, _)
Leftover(tree, cs, out) ==
    IF cs = {} THEN tree
    ELSE LET c == CHOOSE x \in cs : TRUE
             t == IF ~CanCopy(tree, c.to) \/ out[c] = "nothing" THEN tree
                  ELSE IF out[c] = "part" THEN WithPartial(tree, c.to)
                  ELSE WithFile(tree, c.to)
         IN Leftover(t, cs \ {c}, out)

\* move_extracted_files, line 132: one of the concurrent fs::copy futures
\* completes
copy_file ==
    /\ pc = "copying"
    /\ \E c \in file_copying :
         LET name == version_path(published.v)
             tree == releases[name]
         IN
         \/ \* Ok: the file is written
            /\ CanCopy(tree, c.to)
            /\ releases' = [releases EXCEPT ![name] = WithFile(tree, c.to)]
            /\ file_copying' = file_copying \ {c}
            /\ UNCHANGED << pc, faults, tempdir, server_archive, failed_stage, exit_code >>
         \/ \* Err: try_join_all returns it at once; the copies still
            \* running have each written nothing, a part or all
            /\ \/ MayFail /\ faults' = faults + 1
               \/ ~CanCopy(tree, c.to) /\ faults' = faults
            /\ \E out \in [file_copying -> {"nothing", "part", "all"}] :
                 /\ out[c] # "all"
                 /\ releases' = [releases EXCEPT ![name] = Leftover(tree, file_copying, out)]
            /\ file_copying' = {}
            /\ Fail("Materializing")
    /\ UNCHANGED << unitVars, activated >>
    /\ UNCHANGED << runs, now, symlink, backups, lookupVars, read_queue, cur,
                    append_dirs, file_paths, backup_ts, stages, start, swallowed, extracted, hist >>

\* move_extracted_files, lines 132-134, and extract_archive, lines 46-49:
\* every copy is done, the scratch directory is dropped, main goes on to
\* swap_link
move_done ==
    /\ pc = "copying"
    /\ file_copying = {}
    /\ pc' = "swap_rename"
    /\ tempdir' = NoTempDir
    /\ server_archive' = NoArchive
    /\ stages' = Append(stages, "Activating")
    /\ UNCHANGED << unitVars, activated >>
    /\ UNCHANGED << runs, now, faults, fsVars, lookupVars, read_queue, cur, append_dirs,
                    file_paths, file_copying, backup_ts, start, failed_stage, exit_code,
                    swallowed, extracted, hist >>

(***************************************************************************)
(* swap_link.                                                              *)
(***************************************************************************)
\* the name the old link is kept under: <symlink-filename>.<now>
new_path(t) == t

\* backups after the link is removed instead of renamed
Removed(entry, t) == backups

\* backups after fs::rename(symlink_path, new_path): an entry that exists
\* at new_path is replaced
Renamed(entry, t) == (new_path(t) :> entry) @@ backups

\* a swap_link that links to the version that was installed
new_symlink_src_old(installed_v, published_v) == LinkTo(version_path(installed_v))

\* local.rs lines 159-163: what the new link targets
new_symlink_src(installed_v, published_v) == LinkTo(version_path(published_v))

\* swap_link, lines 146-169: the clock is read and the link is renamed to
\* its backup name.  The clock never runs backwards: the second is that of
\* the reading before or a later one, which no backup name holds yet.
swap_rename ==
    /\ pc = "swap_rename"
    /\ \/ \* canonicalize(releases_path) or the rename fails
          /\ \/ MayFail /\ faults' = faults + 1
             \/ symlink.kind = "absent" /\ faults' = faults
          /\ pc' = "failed"
          /\ failed_stage' = "Activating"
          /\ exit_code' = 1
          /\ UNCHANGED << now, symlink, backups, backup_ts >>
       \/ /\ symlink.kind # "absent"
          /\ \E unix_timestamp \in now..(now + 1) :
                /\ now' = unix_timestamp
                /\ backup_ts' = unix_timestamp
                /\ backups' = Renamed(symlink, unix_timestamp)
          /\ symlink' = Absent
          /\ pc' = "swap_link"
          /\ UNCHANGED << faults, failed_stage, exit_code >>
    /\ UNCHANGED << unitVars, activated >>
    /\ UNCHANGED << runs, releases, tempdir, server_archive, lookupVars, walkVars,
                    stages, start, swallowed, extracted, hist >>

\* a swap_link that removes the release the old link targeted once the new
\* link is made
swap_symlink_prune ==
    /\ pc = "swap_link"
    /\ symlink.kind = "absent"
    /\ symlink' = new_symlink_src(installed.v, published.v)
    /\ activated' = activated \cup { symlink'.name }
    /\ releases' = [ n \in DOMAIN releases \ { start.symlink.name } |-> releases[n] ]
    /\ pc' = "done"
    /\ exit_code' = 0
    /\ UNCHANGED << faults, failed_stage, unitVars >>
    /\ UNCHANGED << runs, now, backups, tempdir, server_archive, lookupVars,
                    walkVars, backup_ts, stages, start, swallowed, extracted, hist >>

\* swap_link, lines 170-172: the new link is created
swap_symlink ==
    /\ pc = "swap_link"
    /\ \/ /\ \/ MayFail /\ faults' = faults + 1
             \/ symlink.kind # "absent" /\ faults' = faults
          /\ pc' = "failed"
          /\ failed_stage' = "Activating"
          /\ exit_code' = 1
          /\ UNCHANGED << symlink, activated >>
       \/ /\ symlink.kind = "absent"
          /\ symlink' = new_symlink_src(installed.v, published.v)
          /\ activated' = activated \cup { symlink'.name }
          /\ pc' = "done"
          /\ exit_code' = 0
          /\ UNCHANGED << faults, failed_stage >>
    /\ UNCHANGED unitVars
    /\ UNCHANGED << runs, now, backups, releases, tempdir, server_archive, lookupVars,
                    walkVars, backup_ts, stages, start, swallowed, extracted, hist >>

Running == pc \notin {"idle", "done", "uptodate", "failed", "crashed"}

\* the process is killed in the middle of a run; nothing is cleaned up
crash ==
    /\ Running
    /\ MayFail
    /\ faults' = faults + 1
    /\ pc' = "crashed"
    /\ failed_stage' = pc
    /\ exit_code' = 137
    /\ UNCHANGED << unitVars, activated >>
    /\ UNCHANGED << runs, now, fsVars, tempdir, server_archive, lookupVars, walkVars,
                    backup_ts, stages, start, swallowed, extracted, hist >>

Next ==
    \/ main_start
    \/ local_lookup
    \/ remote_lookup
    \/ determine_teamspeak_versions
    \/ main_compare
    \/ download_release
    \/ extract_archive
    \/ move_begin
    \/ move_pop
    \/ move_entry
    \/ copy_file
    \/ move_done
    \/ swap_rename
    \/ swap_symlink
    \/ crash

Spec == Init /\ [][Next]_vars

(***************************************************************************)
(* The functions of remote.rs, target.rs and extractor.rs on their own:    *)
(* latest_version on every answer of the mirror, Tuple::from_str on every  *)
(* text of the command line, archive_filename and the dispatch of extract  *)
(* on every profile and version.  No run is in progress.                   *)
(***************************************************************************)
UnitInit ==
    /\ pc = "idle"
    /\ runs = 0
    /\ now = 0
    /\ faults = 0
    /\ symlink = LinkDangling
    /\ releases = << >>
    /\ backups = << >>
    /\ tempdir = NoTempDir
    /\ server_archive = NoArchive
    /\ installed = Pending
    /\ listing = << >>
    /\ read_queue = << >>
    /\ cur = NoDir
    /\ append_dirs = << >>
    /\ file_paths = << >>
    /\ file_copying = {}
    /\ backup_ts = 0
    /\ stages = << >>
    /\ start = NoStart
    /\ failed_stage = ""
    /\ swallowed = FALSE
    /\ extracted = << >>
    /\ hist = NoHist
    /\ exit_code = -1
    /\ activated = {}
    /\ file_name = NoFileName
    /\ algorithm = "none"
    /\ archive_url = NoUrl
    /\ \/ \* a mirror answers; the profile is the one of the build
          /\ response \in Responses
          /\ published = Pending
          /\ target_arg = tuple_str
          /\ target_tuple = deduce
          /\ mirror_url = DefaultMirror
       \/ \* a profile is named on the command line; the published version is known
          /\ response = NoResponse
          /\ published \in { Success(v) : v \in Version }
          /\ target_arg \in TargetArgs
          /\ target_tuple = NoTuple
          /\ mirror_url \in MirrorUrls

runVars == << pc, runs, now, faults, symlink, backups, releases, tempdir, server_archive,
              installed, read_queue, cur, append_dirs, file_paths, file_copying,
              backup_ts, stages, start, failed_stage, exit_code, swallowed, extracted,
              hist, activated, mirror_url >>

\* remote.rs latest_version is called
latest_version_call ==
    /\ response.status # "none"
    /\ published.st = "pending"
    /\ published' = latest_version_response(response)
    /\ listing' = response.body
    /\ UNCHANGED << runVars, response, target_arg, target_tuple, file_name, algorithm,
                    archive_url >>

\* argh parses --target-tuple with Tuple::from_str
from_str_call ==
    /\ target_tuple.st = "pending"
    /\ target_tuple' = from_str(target_arg)
    /\ UNCHANGED << runVars, response, published, listing, target_arg, file_name, algorithm,
                    archive_url >>

\* remote_archive_path, line 87: the file name of the published version
archive_filename_call ==
    /\ target_tuple.st = "ok"
    /\ published.st = "ok"
    /\ file_name = NoFileName
    /\ file_name' = archive_filename(target_tuple.tuple, published.v)
    /\ UNCHANGED << runVars, response, published, listing, target_arg, target_tuple, algorithm,
                    archive_url >>

\* local.rs extract_archive, lines 39-42: extract is called with the
\* archive type of the profile
extract_call ==
    /\ target_tuple.st = "ok"
    /\ algorithm = "none"
    /\ algorithm' = extract_dispatch(archive_type(target_tuple.tuple))
    /\ UNCHANGED << runVars, response, published, listing, target_arg, target_tuple, file_name,
                    archive_url >>

\* remote.rs download_release, line 56: remote_archive_path is called
remote_archive_path_call ==
    /\ target_tuple.st = "ok"
    /\ published.st = "ok"
    /\ archive_url = NoUrl
    /\ archive_url' = remote_archive_path(mirror_url, target_tuple.tuple, published.v)
    /\ UNCHANGED << runVars, response, published, listing, target_arg, target_tuple, file_name,
                    algorithm >>

UnitNext ==
    \/ latest_version_call
    \/ from_str_call
    \/ archive_filename_call
    \/ extract_call
    \/ remote_archive_path_call

UnitSpec == UnitInit /\ [][UnitNext]_vars

(***************************************************************************)
(* Properties.                                                             *)
(***************************************************************************)
AllStages == << "Downloading", "Extracting", "Materializing", "Activating" >>

IsPrefix(a, b) == Len(a) <= Len(b) /\ a = SubSeq(b, 1, Len(a))

\* symlink_path, its backups and releases_path are as when the run began
FsUnchanged ==
    symlink = start.symlink /\ backups = start.backups /\ releases = start.releases

\* when the run began the symlink resolved to a directory of releases_path
ValidAtStart ==
    /\ start.symlink.kind = "link"
    /\ start.symlink.loc = "releases"
    /\ start.symlink.name \in DOMAIN start.releases

\* the run has passed the comparison of main, line 539
Decided ==
    /\ pc \notin {"idle", "checking", "compare"}
    /\ ~(pc = "crashed" /\ failed_stage \in {"checking", "compare"})
    /\ ~(pc = "failed" /\ failed_stage = "CheckingVersions")

\* move_extracted_files has returned Ok in this run
Materialized ==
    \/ pc \in {"swap_rename", "swap_link", "done"}
    \/ pc = "copying" /\ file_copying = {}
    \/ pc \in {"failed", "crashed"} /\ stages = AllStages

\* C1: a run downloads, extracts, materializes or activates if and only if
\* both lookups succeeded and installed < published; with installed >=
\* published it ends in UpToDate with nothing downloaded and the symlink,
\* its backups and releases_path unchanged.
C1_UpdateGate ==
    /\ stages # << >> =>
         /\ installed.st = "ok" /\ published.st = "ok"
         /\ VersionLt(installed.v, published.v)
    /\ (Decided /\ VersionLt(installed.v, published.v)) => stages # << >>
    /\ (Decided /\ ~VersionLt(installed.v, published.v)) =>
         /\ pc = "uptodate"
         /\ stages = << >>
         /\ server_archive = NoArchive
         /\ FsUnchanged
    /\ pc = "uptodate" => installed.st = "ok" /\ published.st = "ok"

C1_Witness ==
    /\ pc = "uptodate"
    /\ installed.v = published.v
    /\ runs = 2
    /\ stages = << >>

\* C2: after swap_link has returned Ok for version v, symlink_path is a
\* link that resolves to releases_path/v and the backup name
\* <symlink-filename>.<timestamp> exists and resolves to the release the
\* link targeted before the call.
C2_SwapResult ==
    pc = "done" =>
        /\ symlink = LinkTo(VersionToString(published.v))
        /\ ResolvesToDir(symlink)
        /\ backup_ts \in DOMAIN backups
        /\ backups[backup_ts] = start.symlink
        /\ ResolvesToDir(backups[backup_ts])

C2_Witness ==
    /\ pc = "done"
    /\ backup_ts \in DOMAIN backups
    /\ backups[backup_ts] # symlink

\* the release that was installed when the run began is still a directory
\* and the symlink or this run's backup name resolves to it
OldInstallationReachable ==
    (pc # "idle" /\ ValidAtStart) =>
        /\ start.symlink.name \in DOMAIN releases
        /\ \/ symlink = start.symlink
           \/ backup_ts \in DOMAIN backups /\ backups[backup_ts] = start.symlink

\* C3: in swap_link the old link is renamed to the backup name before the
\* new link is made, no other entry of the file system changes, and in
\* every state of a run, also after a crash or a failed link creation, the
\* symlink or the backup name resolves to the release installed before.
C3_RenameBeforeLink ==
    [][ /\ (symlink' # symlink /\ symlink'.kind = "link") =>
             /\ pc = "swap_link"
             /\ symlink.kind = "absent"
             /\ backup_ts \in DOMAIN backups /\ backups[backup_ts] = start.symlink
        /\ pc \in {"swap_rename", "swap_link"} => releases' = releases
        /\ OldInstallationReachable' ]_vars

C3_Witness ==
    /\ pc \in {"failed", "crashed"}
    /\ ValidAtStart
    /\ symlink.kind = "absent"
    /\ backup_ts \in DOMAIN backups /\ backups[backup_ts] = start.symlink

\* C4: whenever a run has ended, with success or with the failure of any
\* stage, a link exists at symlink_path and resolves to a release
\* directory.
C4_PointerNeverMissing ==
    (pc \in {"done", "uptodate", "failed"} /\ ValidAtStart) =>
        symlink.kind = "link" /\ ResolvesToDir(symlink)

\* C5: when installed_version or latest_version fails the run ends with
\* that failure before any mutation: nothing is downloaded and the symlink,
\* its backups and releases_path are unchanged.
C5_LookupFailureAborts ==
    /\ (installed.st = "err" \/ published.st = "err") =>
         /\ pc \in {"checking", "failed", "crashed"}
         /\ pc = "failed" => failed_stage = "CheckingVersions"
         /\ stages = << >>
         /\ server_archive = NoArchive
         /\ ~tempdir.exists
         /\ FsUnchanged
    /\ (pc = "failed" /\ failed_stage = "CheckingVersions") =>
         installed.st = "err" \/ published.st = "err"

C5_Witness ==
    /\ pc = "failed"
    /\ failed_stage = "CheckingVersions"
    /\ installed.st = "ok"
    /\ published.st = "err" /\ published.why = "no_versions"

\* C6: the stages Downloading, Extracting, Materializing, Activating are
\* started in this order, each at most once and each only when the stage
\* before it has succeeded; the failure of a stage ends the run with no
\* later stage started.
C6_StageOrder ==
    /\ IsPrefix(stages, AllStages)
    /\ pc = "downloading" => Len(stages) = 1
    /\ pc = "extracting" => Len(stages) = 2
    /\ pc \in {"moving", "walking", "copying"} => Len(stages) = 3
    /\ pc \in {"swap_rename", "swap_link", "done"} => Len(stages) = 4
    /\ pc = "failed" =>
         IF failed_stage = "CheckingVersions" THEN stages = << >>
         ELSE stages # << >> /\ stages[Len(stages)] = failed_stage

C6_Witness ==
    /\ pc = "failed"
    /\ failed_stage = "Materializing"
    /\ stages = << "Downloading", "Extracting", "Materializing" >>

\* C7: a failed download ends the run before any extraction and a failed
\* extraction ends it with the scratch directory alone affected: the
\* symlink, its backups and releases_path are as before the run.
C7_TransferAndExtractionFailure ==
    /\ (pc = "failed" /\ failed_stage = "Downloading") =>
         stages = << "Downloading" >> /\ extracted = << >> /\ FsUnchanged
    /\ (pc = "failed" /\ failed_stage = "Extracting") =>
         stages = << "Downloading", "Extracting" >> /\ FsUnchanged
    /\ pc \in {"downloading", "extracting"} => FsUnchanged

C7_Witness ==
    /\ pc = "failed"
    /\ failed_stage = "Extracting"
    /\ faults = 0

\* C8: every I/O failure during materialization makes move_extracted_files
\* return an error, so that the run fails and swap_link is not called: no
\* failure is ignored and followed by activation.
C8_NoSwallowedFailure ==
    swallowed => "Activating" \notin { stages[i] : i \in 1..Len(stages) }

\* this run materializes, with no I/O failure, the listing that every
\* earlier materialization into the same directory was given
SecondMaterialization ==
    LET name == VersionToString(published.v)
    IN /\ faults = start.faults
       /\ "Materializing" \in { stages[i] : i \in 1..Len(stages) }
       /\ name \in DOMAIN start.releases
       /\ name \in DOMAIN hist
       /\ hist[name] = {extracted}

\* C9: move_extracted_files run again with the same extracted input and
\* the same version, also after a first run that ended part-way, does not
\* fail on what exists already (it fails only on an input that no run can
\* materialize), and the tree under the version is that of one complete
\* run.
C9_MaterializeIdempotent ==
    SecondMaterialization =>
        /\ pc = "failed" => FirstEntryUnreadable(extracted)
        /\ Materialized =>
             releases[VersionToString(published.v)] = CompleteTree(extracted)

C9_Witness ==
    /\ SecondMaterialization
    /\ pc = "done"
    /\ releases[VersionToString(published.v)] # start.releases[VersionToString(published.v)]

\* C10: for an extraction root that holds one wrapper directory W, a
\* materialization that returns Ok leaves under releases_path/v a
\* directory for every directory of W and a file for every file of W, the
\* wrapper segment stripped, and nothing else when the directory is new.
C10_WrapperStripped ==
    (Materialized /\ Len(extracted) = 1 /\ Head(extracted).kind = "dir") =>
        LET tree == releases[VersionToString(published.v)]
            want == TreeOf(<< >>, Head(extracted).children)
        IN /\ \A p \in DOMAIN want : p \in DOMAIN tree /\ tree[p] = want[p]
           /\ VersionToString(published.v) \notin DOMAIN start.releases => tree = want

\* C11: the exit status tells three cases apart: 0 after an update, 0 (a
\* no-op) when the installed version is current, and a status other than 0
\* only when a stage failed; a run that ends in UpToDate never exits with a
\* status other than 0.
C11_ExitOutcome ==
    /\ pc = "done" => exit_code = 0
    /\ pc = "uptodate" => exit_code = 0
    /\ pc = "failed" => exit_code # 0
    /\ exit_code \notin {-1, 0} => pc \in {"failed", "crashed"}

\* the versions that the anchor texts of a listing encode
ParseableVersions(body) ==
    { VersionParse(body[i]) : i \in { j \in 1..Len(body) : VersionParses(body[j]) } }

\* latest_version has returned on a listing that the mirror served
ListingAnswered == response.status = "ok" /\ published.st # "pending"

\* C12: on a listing with at least one anchor text that parses as a
\* version, latest_version returns the maximum under semantic-version
\* ordering of exactly the parseable anchor texts; the other tokens cause no
\* failure and do not change the result.
C12_LatestIsMaximum ==
    (ListingAnswered /\ ParseableVersions(response.body) # {}) =>
        /\ published.st = "ok"
        /\ published.v \in ParseableVersions(response.body)
        /\ \A w \in ParseableVersions(response.body) : ~VersionLt(published.v, w)
        /\ published = latest_version(SelectSeq(response.body, VersionParses))

C12_Witness ==
    /\ ListingAnswered
    /\ Len(response.body) = 3
    /\ ~VersionParses(response.body[2])
    /\ VersionParses(response.body[1]) /\ VersionParses(response.body[3])
    /\ published.v = VersionParse(response.body[3])
    /\ VersionLt(VersionParse(response.body[1]), published.v)

\* C13: latest_version fails with the no-versions error if and only if the
\* listing was fetched and holds no anchor text that parses; it fails with
\* the error of the request when the request fails, the status is no
\* success or the body cannot be read; in none of these cases does it
\* return a version.
C13_NoVersionsOrTransport ==
    (response.status # "none" /\ published.st # "pending") =>
        /\ (published.st = "err" /\ published.why = "no_versions") <=>
              (response.status = "ok" /\ ParseableVersions(response.body) = {})
        /\ response.status \in {"send_err", "body_err"} =>
              published.st = "err" /\ published.why = "transport"
        /\ response.status = "http_err" =>
              published.st = "err" /\ published.why = "status"
        /\ published.st = "ok" =>
              response.status = "ok" /\ ParseableVersions(response.body) # {}

C13_Witness ==
    /\ response.status = "ok"
    /\ Len(response.body) = 2
    /\ published.st = "err" /\ published.why = "no_versions"

\* C14: no step of a run deletes a directory of releases_path: every
\* directory that exists before a step exists after it, and the directory
\* the symlink targeted before activation exists when the run has ended.
C14_NoReleaseDeleted ==
    [][ /\ DOMAIN releases \subseteq DOMAIN releases'
        /\ (Terminated' /\ ValidAtStart') =>
              /\ DOMAIN start'.releases \subseteq DOMAIN releases'
              /\ start'.symlink.name \in DOMAIN releases' ]_vars

C14_Witness ==
    /\ pc = "done"
    /\ ValidAtStart
    /\ start.symlink.name \in DOMAIN releases
    /\ symlink.name # start.symlink.name
    /\ symlink.name \in DOMAIN releases

\* C15: the scratch directory belongs to one run and is gone when
\* extract_archive has returned, with Ok, with an extraction error or with
\* a materialization error; it exists only between the extraction and the
\* end of move_extracted_files.
C15_TempDirScoped ==
    /\ pc \in {"swap_rename", "swap_link", "done"} => ~tempdir.exists
    /\ (pc = "failed" /\ failed_stage \in {"Extracting", "Materializing", "Activating"}) =>
          ~tempdir.exists
    /\ tempdir.exists =>
          \/ pc \in {"moving", "walking", "copying"}
          \/ pc = "crashed" /\ failed_stage \in {"moving", "walking", "copying"}
    /\ pc \in {"moving", "walking", "copying"} => tempdir.exists

C15_Witness ==
    /\ pc = "failed"
    /\ failed_stage = "Materializing"
    /\ Len(file_paths) > 0
    /\ ~tempdir.exists

\* C16: installed_version returns a version only when the symlink resolves
\* to a directory whose name is valid text that parses as a version, and
\* then the version that this name encodes; it fails when the symlink does
\* not resolve to a directory and when the name is no valid text or no
\* version.
C16_InstalledVersion ==
    installed.st # "pending" =>
        /\ installed.st = "ok" <=>
              (ValidAtStart /\ start.symlink.name \in VersionNames)
        /\ installed.st = "ok" =>
              /\ VersionToString(installed.v) = start.symlink.name
              /\ \A i \in 1..Len(start.symlink.name) : start.symlink.name[i] # NotUtf8
        /\ ~ValidAtStart =>
              installed.st = "err" /\ installed.why \in {"canonicalize", "not_a_directory"}
        /\ (ValidAtStart /\ start.symlink.name \in JunkNames) =>
              installed.st = "err" /\ installed.why \in {"not_utf8", "parse"}

C16_Witness ==
    /\ installed.st = "ok"
    /\ installed.v.pre = 1
    /\ start.symlink.name = << installed.v.major, 0, 0, Dash, 1 >>

\* the profiles of Windows and macOS
ZipProfiles == { "WindowsX86", "WindowsX8664", "Mac" }

\* C17: every profile has one archive format, zip for the Windows and
\* macOS profiles and the compressed tarball for the others;
\* archive_filename is teamspeak3-server_<platform-token>-<version>.<ext>
\* with the extension of that format, so the function extract dispatches
\* to is the one for the suffix of the file that is downloaded.
C17_FilenameMatchesFormat ==
    /\ \A p \in Tuple :
          /\ archive_type(p) \in ArchiveType
          /\ archive_type(p) = "Zip" <=> p \in ZipProfiles
    /\ file_name # NoFileName =>
          /\ target_tuple.st = "ok" /\ published.st = "ok"
          /\ file_name = << "teamspeak3-server_", target_string(target_tuple.tuple), "-",
                            VersionToString(published.v), ".",
                            IF target_tuple.tuple \in ZipProfiles THEN "zip" ELSE "tar.bz2" >>
    /\ (file_name # NoFileName /\ algorithm # "none") =>
          /\ algorithm = "extract_zip" <=> file_name[Len(file_name)] = "zip"
          /\ algorithm = "extract_tarball" <=> file_name[Len(file_name)] = "tar.bz2"

C17_Witness ==
    /\ target_tuple.st = "ok" /\ target_tuple.tuple = "Mac"
    /\ file_name # NoFileName
    /\ file_name[4] = << 1, 0, 0, Dash, 1 >>
    /\ algorithm = "extract_zip"

\* C18: Tuple::from_str inverts target_string, ignoring case: the
\* identifier of every profile resolves to that profile, two profiles
\* never share an identifier, and a text that is no identifier of a
\* profile in any spelling of case is rejected as not recognized.
C18_TargetRoundTrip ==
    /\ \A p \in Tuple : from_str(Text(target_string(p), {})) = Recognized(p)
    /\ \A p, q \in Tuple : p # q => target_string(p) # target_string(q)
    /\ target_tuple.st = "ok" =>
          target_arg.lower = target_string(target_tuple.tuple)
    /\ (target_tuple.st # "pending" /\ target_arg \in TargetArgs) =>
          IF \E p \in Tuple : target_arg.lower = target_string(p)
          THEN target_tuple.st = "ok"
          ELSE target_tuple = NotRecognized(target_arg)

C18_Witness ==
    /\ target_arg = Text("win64", {1})
    /\ target_tuple = Recognized("WindowsX8664")

\* C19: a release tree is not changed once it has been activated: no step
\* of a later run creates, overwrites or changes an entry under a directory
\* of releases_path that symlink_path has targeted.
C19_ActivatedImmutable ==
    [][ \A n \in activated :
          n \in DOMAIN releases => (n \in DOMAIN releases' /\ releases'[n] = releases[n]) ]_vars

\* determine_teamspeak_versions has returned Ok in this run
LookupsReturned ==
    /\ pc \notin {"idle", "checking"}
    /\ ~(pc = "crashed" /\ failed_stage = "checking")
    /\ ~(pc = "failed" /\ failed_stage = "CheckingVersions")

\* C20: the two lookups are joined: the comparison and every later stage
\* start only when both have returned Ok, and the decision of the run is a
\* function of their two results alone, whichever completes first: failure
\* when one of them failed, UpdateAvailable when installed < published,
\* UpToDate otherwise.
C20_LookupsJoined ==
    /\ (LookupsReturned \/ stages # << >>) => installed.st = "ok" /\ published.st = "ok"
    /\ (pc = "checking" /\ installed.st # "pending") =>
          installed = installed_version(symlink)
    /\ (installed.st = "err" \/ published.st = "err") =>
          pc \in {"checking", "crashed"} \/ (pc = "failed" /\ failed_stage = "CheckingVersions")
    /\ (LookupsReturned /\ pc # "compare" /\ failed_stage # "compare") =>
          IF VersionLt(installed.v, published.v)
          THEN pc # "uptodate" /\ stages # << >>
          ELSE pc = "uptodate" /\ stages = << >>

C20_Witness ==
    /\ pc = "failed"
    /\ failed_stage = "CheckingVersions"
    /\ published.st = "ok"
    /\ installed.st = "err"

\* the directories of the scratch directory that the walk holds open
OpenDirs ==
    { read_queue[i] : i \in 1..Len(read_queue) }
        \cup { append_dirs[i] : i \in 1..Len(append_dirs) }
        \cup (IF cur.open THEN {cur} ELSE {})

\* the segments of the source path of `d` that its destination does not
\* have: 1 when the walk went into a top-level entry as a wrapper
Unwrapped(d) == Len(d.src) - Len(d.root)

\* C21: the walk goes into a top-level entry of the scratch directory if
\* and only if the scratch directory holds exactly one entry, and then one
\* level only; with no entry or with several no entry is taken for a
\* wrapper.
C21_SingleEntryUnwrap ==
    (pc = "walking" /\ ~swallowed) =>
        \A d \in OpenDirs :
            /\ Unwrapped(d) \in {0, 1}
            /\ Unwrapped(d) = 1 <=> Len(tempdir.listing) = 1

\* the directories of a release tree
Dirs(tree) == { p \in DOMAIN tree : tree[p] = "dir" }

\* the directory that holds `path` is the directory of the version itself
\* or a directory of the release tree
HasParent(tree, path) == Parent(path) = << >> \/ Parent(path) \in Dirs(tree)

\* C22: in a materialization every directory is made when the directory
\* that holds it exists already, and every directory is made before the
\* copies start: when the copies begin the directory that holds the
\* destination of each of them exists under the directory of the version.
C22_DirsBeforeCopies ==
    [][ /\ \A n \in DOMAIN releases \cap DOMAIN releases' :
              \A p \in Dirs(releases'[n]) \ Dirs(releases[n]) :
                  pc = "walking" /\ HasParent(releases[n], p)
        /\ pc' = "copying" =>
              \A c \in file_copying' :
                  /\ c.to # << >>
                  /\ HasParent(releases'[version_path(published.v)], c.to) ]_vars

C22_Witness ==
    /\ pc = "copying"
    /\ \E c \in file_copying :
          /\ Len(c.to) = 2
          /\ Parent(c.to) \in Dirs(releases[version_path(published.v)])

\* where the files that the walk recorded are copied to
Destinations == { copy_target(file_paths[i]) : i \in 1..Len(file_paths) }

\* C23: the copies of one materialization write to pairwise distinct
\* paths under the directory of the version; every step of the copying
\* completes one copy and writes its file alone; move_extracted_files
\* returns Ok only when no copy is left and every recorded file is in
\* place, and an error of one copy ends the run at once; the tree of a
\* materialization into a new directory is a function of the extracted
\* input, whatever the order in which the copies complete.
C23_CopiesIndependent ==
    [][ LET name == version_path(published.v) IN
        /\ pc' \in {"walking", "copying"} =>
              /\ \A i, j \in 1..Len(file_paths') :
                    i # j => copy_target(file_paths'[i]) # copy_target(file_paths'[j])
              /\ \A i \in 1..Len(file_paths') : copy_target(file_paths'[i]) # << >>
        /\ (pc = "walking" /\ pc' = "copying") =>
              { c.to : c \in file_copying' } = Destinations
        /\ (pc = "copying" /\ pc' = "copying") =>
              \E c \in file_copying :
                  /\ file_copying' = file_copying \ {c}
                  /\ releases' = [releases EXCEPT ![name] = WithFile(@, c.to)]
        /\ (pc = "copying" /\ pc' \notin {"copying", "crashed"}) =>
              IF file_copying = {}
              THEN /\ pc' = "swap_rename"
                   /\ releases' = releases
                   /\ \A to \in Destinations : releases[name][to] = "file"
                   /\ (~swallowed /\ name \notin DOMAIN start.releases) =>
                          releases[name] = CompleteTree(extracted)
              ELSE pc' = "failed" /\ failed_stage' = "Materializing" ]_vars

C23_Witness ==
    /\ pc = "swap_rename"
    /\ ~swallowed
    /\ Cardinality(Destinations) = 2
    /\ version_path(published.v) \notin DOMAIN start.releases

\* the path of the mirror without the slash it may end with
MirrorPath == IF mirror_url[Len(mirror_url)] = Slash THEN Parent(mirror_url) ELSE mirror_url

\* C24: for a mirror URL with or without a slash at its end, the download
\* URL is the path of the mirror followed by the segment of the version
\* and the archive file name: every segment of the mirror's path is kept
\* and one slash stands between two segments.
C24_UrlJoined ==
    archive_url # NoUrl =>
        archive_url = MirrorPath \o << VersionSegment(published.v),
                                       FileSegment(archive_filename(target_tuple.tuple,
                                                                    published.v)) >>

\* C25: after a run that updated to the published version v the symlink
\* targets the directory of releases_path named by the text of v and
\* installed_version reads v back from it; a run that starts with the
\* symlink on the directory of the version the mirror publishes ends in
\* UpToDate with the symlink, its backups and releases_path unchanged.
C25_Converges ==
    /\ pc = "done" =>
          /\ symlink = LinkTo(VersionToString(published.v))
          /\ installed_version(symlink) = Success(published.v)
    /\ (/\ Decided
        /\ published.st = "ok"
        /\ start.symlink = LinkTo(VersionToString(published.v))
        /\ start.symlink.name \in DOMAIN start.releases) =>
          pc = "uptodate" /\ FsUnchanged

\* the run after an update, against the same listing
C25_Witness ==
    /\ runs = 2
    /\ pc = "uptodate"
    /\ DOMAIN start.backups # {}
    /\ start.symlink = LinkTo(VersionToString(published.v))
    /\ FsUnchanged

\* the directories of releases_path that are new or changed since the run
\* began
Written ==
    { d \in DOMAIN releases :
        d \notin DOMAIN start.releases \/ releases[d] # start.releases[d] }

\* C26: a run writes nothing into the directory the symlink resolved to
\* when the run began: what it creates or overwrites lies under the
\* directory of the published version, and only when that version is
\* greater than the one the symlink's directory names; the tree of the
\* installed release is the same in every state of the run.
C26_LiveReleaseUntouched ==
    runs > 0 =>
        /\ ValidAtStart =>
              /\ start.symlink.name \in DOMAIN releases
              /\ releases[start.symlink.name] = start.releases[start.symlink.name]
        /\ \A d \in Written :
              /\ ValidAtStart
              /\ published.st = "ok"
              /\ d = VersionToString(published.v)
              /\ VersionParses(start.symlink.name)
              /\ VersionLt(VersionParse(start.symlink.name), published.v)

C26_Witness ==
    /\ pc = "copying"
    /\ ValidAtStart
    /\ symlink = start.symlink
    /\ VersionToString(published.v) \in DOMAIN start.releases
    /\ Written = { VersionToString(published.v) }
====
